---- MODULE Spec2Model ----
(***************************************************************************)
(* toktrack: the daily-summary cache (src/src/services/cache.rs).          *)
(*                                                                         *)
(* Time is counted in half days: a timestamp is a natural number, two      *)
(* consecutive numbers per calendar day.  The machine's time zone is a     *)
(* fixed shift of the local wall clock against UTC of -1, 0 or +1 half     *)
(* days, so that the local calendar date and the UTC calendar date differ  *)
(* by -1, 0 or +1 depending on the time of day.                            *)
(***************************************************************************)
EXTENDS Integers, Sequences, FiniteSets, TLC

VARIABLES
    clock,   \* the current instant (UTC), in half days
    tz,      \* local wall clock minus UTC, in half days
    files,   \* the cache directory: path -> content of the file
    log,     \* the append-only event log of the source (parsed entries)
    last,    \* the last operation on the service: arguments and outcome
    run,     \* the last load_data run: inputs and outcome
    parse,   \* the last run of the line parser: input and outcome
    heat,    \* the last run of the heatmap statistics: input and outcome
    app      \* the terminal application: the App and the place in run_app

vars == <<clock, tz, files, log, last, run, parse, heat, app>>

----------------------------------------------------------------------------
(* Bounds *)

MaxTicks == 1        \* half days the clock advances in a behaviour
MaxEntries == 2      \* longest entry slice handed to load_or_compute
MaxLog == 3          \* longest event log

TimeZones == {-1, 0, 1}

\* the clock starts on day 3 UTC (the days before it are dates), in the local
\* afternoon, so that the first tick passes a local midnight
FirstInstant(zone) == IF zone = 0 THEN 7 ELSE 6

Instants == 6 .. (7 + MaxTicks)

Clis == {"claude-code", "cursor"}
MainClis == {"claude-code"}

\* faulty variant: one file for every source
cache_path_shared(cli) == "daily.json"

\* cache_path(cli): <cache_dir>/<cli>_daily.json
cache_path(cli) == cli \o "_daily.json"

\* the files load_or_compute and clear can name
Paths == {cache_path(cli) : cli \in Clis}

----------------------------------------------------------------------------
(* chrono *)

\* DateTime<Utc>::date_naive: the calendar date of an instant
date_naive(ts) == ts \div 2

\* Utc::now().date_naive(): the calendar date in UTC
UtcToday == date_naive(clock)

\* the calendar date on the local wall clock
LocalToday == date_naive(clock + tz)

\* faulty variant: today read from the UTC clock
today_from_utc == UtcToday

\* let today = Local::now().date_naive()
today_of_call == LocalToday

\* NaiveDate <-> ISO-8601 text, as serde writes and reads it
IsoDates == <<"2024-01-10", "2024-01-11", "2024-01-12", "2024-01-13",
              "2024-01-14", "2024-01-15", "2024-01-16", "2024-01-17">>

DateToString(d) == IsoDates[d + 1]

\* faulty variant: the date is read back one day late
StringToDate_day_late(s) == CHOOSE i \in 1..Len(IsoDates) : IsoDates[i] = s

StringToDate(s) == (CHOOSE i \in 1..Len(IsoDates) : IsoDates[i] = s) - 1

----------------------------------------------------------------------------
(* Result<T> *)

Ok(v) == [ok |-> TRUE, value |-> v]
Err == [ok |-> FALSE, value |-> <<>>]

(* sequences *)

Range(s) == {s[i] : i \in 1..Len(s)}

SeqsUpTo(S, n) == UNION {[1..k -> S] : k \in 0..n}

\* every enumeration of the set S without repetition
Orders(S) ==
    {f \in [1..Cardinality(S) -> S] :
        \A i, j \in 1..Cardinality(S) : i # j => f[i] # f[j]}

----------------------------------------------------------------------------
(* UsageEntry, as the tests' make_entry builds it *)

make_entry(timestamp, model, input, output, cost) ==
    [timestamp |-> timestamp,
     model |-> model,
     input_tokens |-> input,
     output_tokens |-> output,
     cache_read_tokens |-> 0,
     cache_creation_tokens |-> 0,
     cost_usd |-> <<cost>>]

\* the entries a caller may hold now: logged now or a day ago, the cost in
\* hundredths of a dollar
EntryPool(now) == {make_entry(t, "claude", 100, 50, 1) : t \in {now - 2, now}}

EntryListsAt == [now \in Instants |-> SeqsUpTo(EntryPool(now), MaxEntries)]

EntryLists == EntryListsAt[clock]

EntryDate(e) == date_naive(e.timestamp)

----------------------------------------------------------------------------
(* Aggregator::daily: one DailySummary per distinct entry date, every      *)
(* numeric field summed, the per-model breakdown accumulated.  The order   *)
(* of the returned vector is unspecified (`order` enumerates the dates).   *)

RECURSIVE SumOver(_, _)
SumOver(s, field) ==
    IF s = <<>> THEN 0
    ELSE (CASE field = "input" -> Head(s).input_tokens
            [] field = "output" -> Head(s).output_tokens
            [] field = "cache_read" -> Head(s).cache_read_tokens
            [] field = "cache_creation" -> Head(s).cache_creation_tokens
            [] field = "cost" ->
                 IF Head(s).cost_usd = <<>> THEN 0 ELSE Head(s).cost_usd[1])
         + SumOver(Tail(s), field)

\* faulty variant: only the first entry of the date is counted
OnDate_first(entries, d) ==
    LET mine == SelectSeq(entries, LAMBDA e : EntryDate(e) = d)
    IN  IF mine = <<>> THEN mine ELSE <<mine[1]>>

OnDate(entries, d) == SelectSeq(entries, LAMBDA e : EntryDate(e) = d)

ModelUsage(entries) ==
    [input_tokens |-> SumOver(entries, "input"),
     output_tokens |-> SumOver(entries, "output"),
     cache_read_tokens |-> SumOver(entries, "cache_read"),
     cache_creation_tokens |-> SumOver(entries, "cache_creation"),
     cost_usd |-> SumOver(entries, "cost")]

DailySummaryOf(d, entries) ==
    LET mine == OnDate(entries, d) IN
    [date |-> d,
     total_input_tokens |-> SumOver(mine, "input"),
     total_output_tokens |-> SumOver(mine, "output"),
     total_cache_read_tokens |-> SumOver(mine, "cache_read"),
     total_cache_creation_tokens |-> SumOver(mine, "cache_creation"),
     total_cost_usd |-> SumOver(mine, "cost"),
     models |-> [m \in {e.model : e \in Range(mine)} |->
                    ModelUsage(SelectSeq(mine, LAMBDA e : e.model = m))]]

EntryDates(entries) == {EntryDate(e) : e \in Range(entries)}

daily(entries, order) ==
    [i \in 1..Len(order) |-> DailySummaryOf(order[i], entries)]

----------------------------------------------------------------------------
(* The cache file and serde_json *)

\* kind: "absent"  no file
\*       "binary"  bytes that are not UTF-8 (read_to_string fails)
\*       "garbage" text that does not deserialise into a DailySummaryCache
\*       "json"    the JSON text of a DailySummaryCache, held as its document
NoDoc == [cli |-> "", updated_at |-> 0, summaries |-> <<>>]
Absent == [kind |-> "absent", doc |-> NoDoc]
Binary == [kind |-> "binary", doc |-> NoDoc]
Garbage == [kind |-> "garbage", doc |-> NoDoc]

\* Serialize for DailySummary: the date becomes ISO text
SummaryToJson(s) ==
    [date |-> DateToString(s.date),
     total_input_tokens |-> s.total_input_tokens,
     total_output_tokens |-> s.total_output_tokens,
     total_cache_read_tokens |-> s.total_cache_read_tokens,
     total_cache_creation_tokens |-> s.total_cache_creation_tokens,
     total_cost_usd |-> s.total_cost_usd,
     models |-> s.models]

SummaryFromJson(j) ==
    [date |-> StringToDate(j.date),
     total_input_tokens |-> j.total_input_tokens,
     total_output_tokens |-> j.total_output_tokens,
     total_cache_read_tokens |-> j.total_cache_read_tokens,
     total_cache_creation_tokens |-> j.total_cache_creation_tokens,
     total_cost_usd |-> j.total_cost_usd,
     models |-> j.models]

\* serde_json::to_string_pretty(&DailySummaryCache)
to_string_pretty(cache) ==
    [kind |-> "json",
     doc |-> [cli |-> cache.cli,
              updated_at |-> cache.updated_at,
              summaries |-> [i \in 1..Len(cache.summaries) |->
                                SummaryToJson(cache.summaries[i])]]]

\* serde_json::from_str::<DailySummaryCache>
from_str(content) ==
    IF content.kind = "json"
    THEN Ok([cli |-> content.doc.cli,
             updated_at |-> content.doc.updated_at,
             summaries |-> [i \in 1..Len(content.doc.summaries) |->
                               SummaryFromJson(content.doc.summaries[i])]])
    ELSE Err

\* fs::read_to_string
read_to_string(file) ==
    IF file.kind \in {"absent", "binary"} THEN Err ELSE Ok(file)

----------------------------------------------------------------------------
(* DailySummaryCacheService *)

\* .filter(|s| s.date < today)
\* faulty variant: today's cached summary counts as settled
is_past_or_today(s, today) == s.date <= today

is_past(s, today) == s.date < today

\* faulty variant: an unreadable or undecodable file is an error
load_past_summaries_strict(file, today) ==
    IF file.kind = "absent" THEN Ok(<<>>)
    ELSE LET content == read_to_string(file) IN
         IF ~content.ok THEN Err
         ELSE LET cache == from_str(content.value) IN
              IF ~cache.ok THEN Err
              ELSE Ok(SelectSeq(cache.value.summaries,
                                LAMBDA s : is_past(s, today)))

\* load_past_summaries: the cached summaries dated before today; a missing,
\* unreadable or undecodable file gives Ok(empty)
load_past_summaries(file, today) ==
    IF file.kind = "absent" THEN Ok(<<>>)
    ELSE LET content == read_to_string(file) IN
         IF ~content.ok THEN Ok(<<>>)
         ELSE LET cache == from_str(content.value) IN
              IF ~cache.ok THEN Ok(<<>>)
              ELSE Ok(SelectSeq(cache.value.summaries,
                                LAMBDA s : is_past(s, today)))

SummaryDates(summaries) == {summaries[i].date : i \in 1..Len(summaries)}

\* faulty variant: every date of the entries is recomputed
needs_compute_always(date, today, cached_dates) == TRUE

\* .filter(|&date| *date == today || !cached_dates.contains(date))
needs_compute(date, today, cached_dates) ==
    date = today \/ date \notin cached_dates

dates_to_compute(entries, today, cached) ==
    {d \in EntryDates(entries) : needs_compute(d, today, SummaryDates(cached))}

\* faulty variant: every entry is aggregated again
entries_to_compute_all(entries, today, cached) == entries

entries_to_compute(entries, today, cached) ==
    SelectSeq(entries,
              LAMBDA e : EntryDate(e) \in dates_to_compute(entries, today, cached))

\* the dates Aggregator::daily will return summaries for
ComputedDates(file, today, entries) ==
    LET cached == load_past_summaries(file, today) IN
    IF cached.ok
    THEN EntryDates(entries_to_compute(entries, today, cached.value))
    ELSE {}

\* faulty variant: the cached summaries are dropped
merge_only_new(cached, new_summaries) == new_summaries

\* Step 5: cached summaries whose date was not recomputed, then the new ones
merge(cached, new_summaries) ==
    SelectSeq(cached, LAMBDA s : s.date \notin SummaryDates(new_summaries))
        \o new_summaries

\* result.sort_by_key(|s| s.date): a stable sort
RECURSIVE InsertByDate(_, _)
InsertByDate(s, sorted) ==
    IF sorted = <<>> THEN <<s>>
    ELSE IF s.date < Head(sorted).date THEN <<s>> \o sorted
         ELSE <<Head(sorted)>> \o InsertByDate(s, Tail(sorted))

RECURSIVE InsertionSort(_, _)
InsertionSort(rest, sorted) ==
    IF rest = <<>> THEN sorted
    ELSE InsertionSort(Tail(rest), InsertByDate(Head(rest), sorted))

\* faulty variant: the sort is left out
sort_by_key_skipped(result) == result

sort_by_key(result) == InsertionSort(result, <<>>)

\* faulty variant: the record is written under a fixed source id
save_cache_fixed_cli(cli, summaries, now) ==
    to_string_pretty([cli |-> "toktrack", updated_at |-> now, summaries |-> summaries])

\* save_cache: the text written to <cli>_daily.json
save_cache(cli, summaries, now) ==
    to_string_pretty([cli |-> cli, updated_at |-> now, summaries |-> summaries])

\* Steps 4 to 7: aggregate the entries to compute, merge, sort
merge_new(cached, todo, order) ==
    Ok(sort_by_key(merge(cached, IF todo = <<>> THEN <<>> ELSE daily(todo, order))))

\* Steps 1 to 7 (`?` hands an error of load_past_summaries to the caller)
merged_of(cached, today, entries, order) ==
    IF ~cached.ok THEN Err
    ELSE merge_new(cached.value,
                   entries_to_compute(entries, today, cached.value), order)

\* load_or_compute up to the save: Ok(the merged, sorted summaries) or Err
merged_summaries(file, today, entries, order) ==
    merged_of(load_past_summaries(file, today), today, entries, order)

----------------------------------------------------------------------------
(* Operations *)

\* every summary a cache file holds, whatever its date
HeldSummaries(file) ==
    LET cache == from_str(file) IN IF cache.ok THEN cache.value.summaries ELSE <<>>

\* `last`: the operation, its arguments, the instant and the local calendar
\* date of the call, the file it found (its kind and the summaries it held)
\* and the outcome
NoCall ==
    [op |-> "none", cli |-> "", entries |-> <<>>, now |-> 0, today |-> 0,
     kind |-> "absent", held |-> <<>>,
     io |-> "ok", ok |-> TRUE, value |-> <<>>, computed |-> {}]

\* `parse`: the last parse_line or parse_file, its input, the instant, the
\* line slices handed to parse_line and the result
NoParse ==
    [op |-> "none", in |-> <<>>, now |-> 0, read |-> "ok", lines |-> <<>>,
     ok |-> TRUE, value |-> <<>>]

\* `heat`: the last step of the heatmap statistics: the values collected,
\* the result of calculate_percentiles on them, the token count and the
\* level of the last intensity call, and the arguments and the grid of the
\* last build_grid
NoHeat ==
    [op |-> "none", in |-> <<>>, value |-> <<>>, tokens |-> 0, level |-> "",
     today |-> 0, weeks |-> 0, grid |-> <<>>]

\* `run`: the last load_data run, its inputs, the path it took, what each
\* source added to all_summaries and what it returned
NoRun ==
    [op |-> "none", in |-> <<>>, now |-> 0, path |-> "", parts |-> <<>>,
     value |-> <<>>]

Found(op, cli, file) ==
    [NoCall EXCEPT !.op = op, !.cli = cli, !.kind = file.kind,
                   !.held = HeldSummaries(file)]

\* what the file system does under save_cache
IoOutcomes == {"ok", "create_dir_err", "write_err"}

\* the cache file after the `?` of save_cache: untouched when the merge or
\* create_dir_all failed, cut short when fs::write failed after truncating
\* it, the new record otherwise
after_save(cli, file, merged, io, now) ==
    IF ~merged.ok \/ io = "create_dir_err" THEN file
    ELSE IF io = "write_err" THEN Garbage
    ELSE save_cache(cli, merged.value, now)

\* load_or_compute(cli, entries).  `io` is what the file system does under
\* save_cache; the order in which Aggregator::daily returns its summaries is
\* any.  A failed call leaves only its error behind, whatever its entries.
LoadOrCompute(cli, entries, io) ==
    \E today \in {today_of_call}, file \in {files[cache_path(cli)]} :
    \E computed \in {ComputedDates(file, today, entries)} :
    \E order \in Orders(computed) :
    \E merged \in {merged_summaries(file, today, entries, order)} :
        /\ files' = [files EXCEPT
                        ![cache_path(cli)] = after_save(cli, file, merged, io, clock)]
        /\ last' =
             IF merged.ok /\ io = "ok"
             THEN [Found("load_or_compute", cli, file) EXCEPT
                      !.entries = entries, !.now = clock, !.today = LocalToday,
                      !.value = merged.value, !.computed = computed]
             ELSE [Found("load_or_compute", cli, file) EXCEPT
                      !.now = clock, !.today = LocalToday, !.io = io, !.ok = FALSE]
        /\ run' = NoRun
        /\ UNCHANGED <<clock, tz, log, parse, heat, app>>

\* clear(cli)
\* what the file system does under fs::remove_file
RemoveOutcomes == {"ok", "remove_err"}

\* faulty variant: the file is left where it is
after_clear_kept(file, rm) == file

\* the cache file after clear: gone unless fs::remove_file failed
after_clear(file, rm) == IF rm = "ok" THEN Absent ELSE file

\* clear(cli): an absent file is left alone, a present one is removed unless
\* fs::remove_file fails, and then the error is returned
Clear(cli, rm) ==
    \E file \in {files[cache_path(cli)]} :
        /\ file.kind = "absent" => rm = "ok"
        /\ files' = [files EXCEPT ![cache_path(cli)] = after_clear(file, rm)]
        /\ last' = [Found("clear", cli, file) EXCEPT
                       !.now = clock, !.today = LocalToday,
                       !.io = rm, !.ok = (rm = "ok")]
        /\ run' = NoRun
        /\ UNCHANGED <<clock, tz, log, parse, heat, app>>

\* a summary as the tests put it in a cache file by hand
stale_summary(d) ==
    [date |-> d,
     total_input_tokens |-> 999,
     total_output_tokens |-> 999,
     total_cache_read_tokens |-> 0,
     total_cache_creation_tokens |-> 0,
     total_cost_usd |-> 999,
     models |-> [m \in {} |-> 0]]

\* the contents written by hand: broken text, or a cache of stale summaries:
\* today's, yesterday's, both, two past days out of order, one day twice
WrittenFiles ==
    LET t == stale_summary(LocalToday)
        y == stale_summary(LocalToday - 1)
        yy == stale_summary(LocalToday - 2)
    IN  {Garbage, Binary} \cup
        {to_string_pretty([cli |-> "claude-code", updated_at |-> clock,
                           summaries |-> ss]) :
            ss \in {<<t>>, <<y>>, <<t, y>>, <<y, yy>>, <<y, y>>}}

\* the cache file is written from outside the service (the tests' fs::write)
WriteFile(cli, content) ==
    /\ files' = [files EXCEPT ![cache_path(cli)] = content]
    /\ last' = Found("write", cli, files[cache_path(cli)])
    /\ run' = NoRun
    /\ UNCHANGED <<clock, tz, log, parse, heat, app>>

----------------------------------------------------------------------------
(* The terminal application (tui/app.rs): the App, its tabs and spinner *)

\* Tab::all()
Tabs == <<"Overview", "Models", "Daily", "Stats">>

\* faulty variant: the last tab has no next tab
next_no_wrap(self) ==
    CASE self = "Overview" -> "Models"
      [] self = "Models" -> "Daily"
      [] self = "Daily" -> "Stats"
      [] self = "Stats" -> "Stats"

\* Tab::next
next(self) ==
    CASE self = "Overview" -> "Models"
      [] self = "Models" -> "Daily"
      [] self = "Daily" -> "Stats"
      [] self = "Stats" -> "Overview"

\* Tab::prev
prev(self) ==
    CASE self = "Overview" -> "Stats"
      [] self = "Models" -> "Overview"
      [] self = "Daily" -> "Models"
      [] self = "Stats" -> "Daily"

\* the ten frames of the spinner animation
SPINNER_FRAMES == <<"f0", "f1", "f2", "f3", "f4", "f5", "f6", "f7", "f8", "f9">>

\* faulty variant: the frame index is not wrapped
next_frame_unwrapped(frame) == frame + 1

\* Spinner::next_frame
next_frame(frame) == (frame + 1) % Len(SPINNER_FRAMES)

\* AppState, one record per variant
Loading(spinner_frame, stage) ==
    [kind |-> "Loading", spinner_frame |-> spinner_frame, stage |-> stage]

Ready(data) == [kind |-> "Ready", data |-> data]

Error(message) == [kind |-> "Error", message |-> message]

\* App::new
App_new ==
    [state |-> Loading(0, "Scanning"),
     should_quit |-> FALSE,
     current_tab |-> Tabs[1]]

\* the tokens of a day for the heatmap: all tokens, cache included
tokens_of(d) ==
    <<d.date,
      d.total_input_tokens + d.total_output_tokens
          + d.total_cache_read_tokens + d.total_cache_creation_tokens>>

\* App::load_data: the outcome of parse_all is Ok(entries) or Err; the state
\* passes through Loading(0, Parsing) and Loading(0, Aggregating) inside the
\* call and ends Ready or Error.  `order` is the order Aggregator::daily
\* returns the dates in.  The TotalSummary of the data is only displayed.
App_load_data(self, parsed, order) ==
    IF ~parsed.ok
    THEN [self EXCEPT !.state = Error("Failed to parse data")]
    ELSE LET daily_summaries == daily(parsed.value, order)
         IN  [self EXCEPT !.state =
                 Ready([daily_tokens |->
                          [i \in 1..Len(daily_summaries) |->
                              tokens_of(daily_summaries[i])]])]

\* crossterm events: key events of a kind, and events that are not keys
KeyCodes == {"q", "Q", "Esc", "Tab", "BackTab", "x"}

KeyEvent(code, kind) == [type |-> "Key", code |-> code, kind |-> kind]

Events ==
    {KeyEvent(code, kind) : code \in KeyCodes, kind \in {"Press", "Release"}}
        \cup {[type |-> "Resize", code |-> "", kind |-> ""]}

\* faulty variant: the quit keys are ignored while the data is shown
handle_event_ready_ignores_quit(self, event) ==
    IF event.type = "Key" /\ event.kind = "Press"
    THEN CASE event.code \in {"q", "Q", "Esc"} ->
                 [self EXCEPT !.should_quit = (self.state.kind # "Ready")]
           [] event.code = "Tab" ->
                 [self EXCEPT !.current_tab = next(self.current_tab)]
           [] event.code = "BackTab" ->
                 [self EXCEPT !.current_tab = prev(self.current_tab)]
           [] OTHER -> self
    ELSE self

\* App::handle_event
handle_event(self, event) ==
    IF event.type = "Key" /\ event.kind = "Press"
    THEN CASE event.code \in {"q", "Q", "Esc"} ->
                 [self EXCEPT !.should_quit = TRUE]
           [] event.code = "Tab" ->
                 [self EXCEPT !.current_tab = next(self.current_tab)]
           [] event.code = "BackTab" ->
                 [self EXCEPT !.current_tab = prev(self.current_tab)]
           [] OTHER -> self
    ELSE self

\* App::tick
tick(self) ==
    IF self.state.kind = "Loading"
    THEN [self EXCEPT !.state =
             Loading(next_frame(self.state.spinner_frame), self.state.stage)]
    ELSE self

\* App::should_quit
should_quit(self) == self.should_quit

\* `app`: the App (self), the place of run_app in its loop (pc: "new" while
\* no run_app is under way), and the last operation on the App with the
\* event and the entries it was given
NoEvent == [type |-> "none", code |-> "", kind |-> ""]

NoApp == [pc |-> "new", self |-> App_new, op |-> "new", event |-> NoEvent,
          entries |-> <<>>]

\* time passes
Tick ==
    /\ clock < FirstInstant(tz) + MaxTicks
    /\ clock' = clock + 1
    /\ UNCHANGED <<tz, files, log, last, run, parse, heat, app>>

Init ==
    /\ tz \in TimeZones
    /\ clock = FirstInstant(tz)
    /\ files = [p \in Paths |-> Absent]
    /\ log = <<>>
    /\ last = NoCall
    /\ run = NoRun
    /\ parse = NoParse
    /\ heat = NoHeat
    /\ app = NoApp

Call == \E cli \in MainClis, io \in IoOutcomes :
            \E entries \in (IF io = "ok" THEN EntryLists ELSE {<<>>}) :
                LoadOrCompute(cli, entries, io)

ClearCache == \E cli \in MainClis, rm \in RemoveOutcomes : Clear(cli, rm)

Write == \E cli \in MainClis, content \in WrittenFiles : WriteFile(cli, content)

Next == Call \/ ClearCache \/ Write \/ Tick

Spec == Init /\ [][Next]_vars

----------------------------------------------------------------------------
(* The append-only log: a run logs events at the current instant and hands *)
(* the whole log to load_or_compute; nothing else touches the cache file.  *)

AppendEvent ==
    /\ Len(log) < MaxLog
    /\ log' = Append(log, make_entry(clock, "claude", 100, 50, 1))
    /\ UNCHANGED <<clock, tz, files, last, run, parse, heat, app>>

CallWithLog == \E cli \in MainClis, io \in IoOutcomes : LoadOrCompute(cli, log, io)

NextLog == AppendEvent \/ CallWithLog \/ Tick

SpecLog == Init /\ [][NextLog]_vars

\* the dates of S in ascending order
Ascending(S) == CHOOSE f \in Orders(S) : \A i, j \in 1..Cardinality(S) : i < j => f[i] < f[j]

\* the daily aggregation of all the entries, by ascending date
SortedDaily(entries) == daily(entries, Ascending(EntryDates(entries)))

----------------------------------------------------------------------------
(* load_data: every registered source is parsed and handed to the cache    *)
(* service, on the warm path (some cache file exists: recent files only)   *)
(* or on the cold path (full parse).  The entries carry their cost, so the *)
(* pricing step leaves them as they are.                                   *)

\* ParserRegistry::parsers(), in registration order
Registry == <<"claude-code", "cursor">>

\* an event as a source logs it
source_entry(cli, timestamp) ==
    IF cli = "claude-code" THEN make_entry(timestamp, "claude", 100, 50, 1)
                           ELSE make_entry(timestamp, "gpt-4", 500, 250, 5)

\* the log files of a source: none ("empty"); one old file with an event of
\* more than a day ago and one recent file with an event of now ("logs");
\* the same with parse_recent_files failing ("recent_fails"); or both parse
\* calls failing ("unparsable")
SourceStates == {"empty", "logs", "recent_fails", "unparsable"}

\* the cache directory during a run: everything works, fs::write fails for
\* some sources, create_dir_all fails (then for every source), or the
\* service could not be constructed at all
DataIos ==
    [Clis -> {"ok", "write_err"}] \cup {[cli \in Clis |-> "create_dir_err"]}
        \cup {[cli \in Clis |-> "no_service"]}

DataInputs == [source : [Clis -> SourceStates], io : DataIos]

\* parser.parse_all()
parse_all(cli, in, now) ==
    IF in.source[cli] = "unparsable" THEN Err
    ELSE IF in.source[cli] = "empty" THEN Ok(<<>>)
    ELSE Ok(<<source_entry(cli, now - 3), source_entry(cli, now)>>)

\* parser.parse_recent_files(since), since = now - 24h
parse_recent_files(cli, in, now) ==
    IF in.source[cli] \in {"recent_fails", "unparsable"} THEN Err
    ELSE IF in.source[cli] = "empty" THEN Ok(<<>>)
    ELSE Ok(<<source_entry(cli, now)>>)

\* `let v = value; body(v)`: the value is computed once
let_in(value, body(_)) == CHOOSE result \in {body(v) : v \in {value}} : TRUE

\* cs.load_or_compute(cli, entries) as a function of the cache file: its
\* result and the file it leaves
load_or_compute(cli, file, entries, io, now) ==
    let_in(today_of_call, LAMBDA today :
    let_in(Ascending(ComputedDates(file, today, entries)), LAMBDA order :
    let_in(merged_summaries(file, today, entries, order), LAMBDA merged :
        [ok |-> merged.ok /\ io = "ok",
         value |-> IF merged.ok /\ io = "ok" THEN merged.value ELSE <<>>,
         file |-> after_save(cli, file, merged, io, now)])))

\* faulty variant: a source that cannot be parsed is served from its cache
parse_failed_serve_cache(file) == [part |-> HeldSummaries(file), file |-> file]

\* the parser failed: a warning, and the loop continues with the next source
parse_failed(file) == [part |-> <<>>, file |-> file]

\* one source on the warm path: what it adds and the cache file it leaves
warm_source(cli, file, in, now) ==
    let_in(parse_recent_files(cli, in, now), LAMBDA parsed :
    IF ~parsed.ok THEN parse_failed(file)
    ELSE let_in(load_or_compute(cli, file, parsed.value, in.io[cli], now),
                LAMBDA out :
         [part |-> IF out.ok THEN out.value ELSE <<>>, file |-> out.file]))

\* one source on the cold path
cold_source(cli, file, in, now) ==
    let_in(parse_all(cli, in, now), LAMBDA parsed :
    IF ~parsed.ok THEN parse_failed(file)
    ELSE IF parsed.value = <<>> THEN [part |-> <<>>, file |-> file]
    ELSE IF in.io[cli] = "no_service"
         THEN [part |-> SortedDaily(parsed.value), file |-> file]
         ELSE let_in(load_or_compute(cli, file, parsed.value, in.io[cli], now),
                     LAMBDA out :
              [part |-> IF out.ok THEN out.value ELSE SortedDaily(parsed.value),
               file |-> out.file]))

\* the loop over registry.parsers() from the i-th parser on
RECURSIVE for_parsers(_, _, _, _, _, _)
for_parsers(path, i, fs, parts, in, now) ==
    IF i > Len(Registry) THEN [files |-> fs, parts |-> parts]
    ELSE let_in(Registry[i], LAMBDA cli :
         let_in(IF path = "warm"
                THEN warm_source(cli, fs[cache_path(cli)], in, now)
                ELSE cold_source(cli, fs[cache_path(cli)], in, now),
                LAMBDA out :
         let_in([fs EXCEPT ![cache_path(cli)] = out.file], LAMBDA fs_next :
         let_in([parts EXCEPT ![cli] = out.part], LAMBDA parts_next :
             for_parsers(path, i + 1, fs_next, parts_next, in, now)))))

\* all_summaries: the parts in registration order
RECURSIVE all_summaries(_, _)
all_summaries(parts, i) ==
    IF i > Len(Registry) THEN <<>>
    ELSE parts[Registry[i]] \o all_summaries(parts, i + 1)

has_cache(fs, in) ==
    /\ in.io[Registry[1]] # "no_service"
    /\ \E i \in 1..Len(Registry) : fs[cache_path(Registry[i])].kind # "absent"

NoParts == [cli \in Clis |-> <<>>]

\* load_data(): the path that produced the result, the parts, the sorted
\* result and the cache directory it leaves
load_data(fs, in, now) ==
    let_in(has_cache(fs, in), LAMBDA warmed :
    let_in(IF warmed THEN for_parsers("warm", 1, fs, NoParts, in, now)
                     ELSE [files |-> fs, parts |-> NoParts], LAMBDA warm :
    let_in(warmed /\ all_summaries(warm.parts, 1) # <<>>, LAMBDA served :
    let_in(IF served THEN warm
           ELSE for_parsers("cold", 1, warm.files, NoParts, in, now),
           LAMBDA out :
        [path |-> IF served THEN "warm" ELSE "cold",
         parts |-> out.parts,
         value |-> sort_by_key(all_summaries(out.parts, 1)),
         files |-> out.files]))))

LoadData ==
    \E in \in DataInputs :
    \E out \in {load_data(files, in, clock)} :
        /\ files' = out.files
        /\ run' = [op |-> "load_data", in |-> in, now |-> clock,
                   path |-> out.path, parts |-> out.parts, value |-> out.value]
        /\ last' = NoCall
        /\ UNCHANGED <<clock, tz, log, parse, heat, app>>

\* the calls of the service on any source
CallAny ==
    \E cli \in Clis :
    \E entries \in {<<>>, <<source_entry(cli, clock)>>,
                   <<source_entry(cli, clock - 3), source_entry(cli, clock)>>} :
        LoadOrCompute(cli, entries, "ok")

ClearAny == \E cli \in Clis : Clear(cli, "ok")

NextData == LoadData \/ ClearAny

\* load_data does not depend on the offset of the local clock beyond what
\* load_or_compute does with it: the runs start with the local clock on UTC
InitData == Init /\ tz = 0

SpecData == InitData /\ [][NextData]_vars

NextSources == CallAny \/ ClearAny

SpecSources == Init /\ [][NextSources]_vars

----------------------------------------------------------------------------
(* Properties of load_or_compute *)

IsCall == last.op = "load_or_compute"

\* the last operation was a load_or_compute call that returned Ok(last.value)
Returned == IsCall /\ last.ok

SummariesOn(summaries, d) == SelectSeq(summaries, LAMBDA s : s.date = d)

\* the dates and token totals of a sequence of summaries
TokenTotals(summaries) ==
    [i \in 1..Len(summaries) |->
        <<summaries[i].date,
          summaries[i].total_input_tokens,
          summaries[i].total_output_tokens,
          summaries[i].total_cache_read_tokens,
          summaries[i].total_cache_creation_tokens>>]

\* a step of the system that is a (new) load_or_compute call
IsCallStep == last'.op = "load_or_compute" /\ (last' # last \/ files' # files)

Unloadable == {"absent", "binary", "garbage"}

\* C1: when the entries hold an event dated today (the local date at the call),
\* the returned summary for today is the aggregation of exactly the entries
\* dated today, whatever the cache file held for today.
C1_TodayRecomputed ==
    (Returned /\ last.today \in EntryDates(last.entries))
        => SummariesOn(last.value, last.today)
             = daily(OnDate(last.entries, last.today), <<last.today>>)

\* a call with an event dated today found a cache file holding another
\* summary for today
C1_Witness ==
    /\ Returned
    /\ last.today \in EntryDates(last.entries)
    /\ \E i \in 1..Len(last.held) :
          /\ last.held[i].date = last.today
          /\ last.held[i] \notin Range(last.value)

\* C2: every date before today for which the cache file held a summary comes
\* back as cached, field for field, and none of its events is aggregated.
C2_PastTrusted ==
    Returned =>
        \A d \in SummaryDates(last.held) :
            d < last.today =>
                /\ SummariesOn(last.value, d) = SummariesOn(last.held, d)
                /\ d \notin last.computed

\* the entries hold events of a cached past date whose aggregation differs
\* from the cached summary
C2_Witness ==
    /\ Returned
    /\ \E d \in SummaryDates(last.held) \cap EntryDates(last.entries) :
          /\ d < last.today
          /\ DailySummaryOf(d, last.entries) \notin Range(last.held)
          /\ SummariesOn(last.value, d) # <<>>

\* C5: a returned collection holds at most one summary per date, for any
\* entries and any cache file that deserialises.
C5_OnePerDate ==
    Returned =>
        \A i, j \in 1..Len(last.value) :
            i # j => last.value[i].date # last.value[j].date

C7_SortedAscending ==
    Returned =>
        \A i \in 1..(Len(last.value) - 1) :
            last.value[i].date <= last.value[i + 1].date

\* the entries came in descending date order and two dates are returned
C7_Witness ==
    /\ Returned
    /\ Len(last.entries) >= 2
    /\ EntryDate(last.entries[1]) > EntryDate(last.entries[2])
    /\ Cardinality(SummaryDates(last.value)) >= 2

\* C8: after a call that returned Ok the cache file decodes to a record with
\* the source id and exactly the returned summaries, nothing else.
C8_CacheIsResult ==
    Returned =>
        LET cache == from_str(files[cache_path(last.cli)]) IN
        /\ cache.ok
        /\ cache.value.cli = last.cli
        /\ cache.value.summaries = last.value

\* the file held a summary before the call that the new record does not hold
C8_Witness ==
    /\ Returned
    /\ last.value # <<>>
    /\ \E i \in 1..Len(last.held) : last.held[i] \notin Range(last.value)

\* C9: a call that returns Ok returns, and writes back, every summary dated
\* before today that the cache file held, whether or not the entries still
\* hold events of that date (so the summary survives every later call).
C9_HistoryKept ==
    [][(IsCallStep /\ last'.ok) =>
          \A s \in Range(HeldSummaries(files[cache_path(last'.cli)])) :
              s.date < last'.today =>
                  /\ s \in Range(last'.value)
                  /\ s \in Range(HeldSummaries(files'[cache_path(last'.cli)]))]_vars

\* a summary that an earlier call aggregated is returned for a past date of
\* which the entries hold no event any more
C9_Witness ==
    /\ Returned
    /\ \E i \in 1..Len(last.held) :
          /\ last.held[i].date < last.today
          /\ last.held[i].date \notin EntryDates(last.entries)
          /\ last.held[i].total_input_tokens = 100
          /\ last.held[i] \in Range(last.value)

\* C10: of two calls in succession with the same entries, the second returns
\* for every date before today what the first returned, reads it from the
\* record the first wrote, and aggregates no event of that date.
C10_Idempotent ==
    [][(/\ Returned
        /\ IsCallStep /\ last'.ok
        /\ last'.cli = last.cli
        /\ last'.entries = last.entries) =>
          \A d \in SummaryDates(last.value) \cup SummaryDates(last'.value)
                     \cup EntryDates(last.entries) :
              d < last'.today =>
                  /\ TokenTotals(SummariesOn(last'.value, d))
                       = TokenTotals(SummariesOn(last.value, d))
                  /\ SummariesOn(last'.value, d)
                       = SummariesOn(HeldSummaries(files[cache_path(last.cli)]), d)
                  /\ d \notin last'.computed]_vars

\* a call found in the cache, for a past date of its entries, exactly the
\* aggregation of those entries, and did not aggregate them again
C10_Witness ==
    /\ Returned
    /\ \E d \in EntryDates(last.entries) :
          /\ d < last.today
          /\ d \notin last.computed
          /\ SummariesOn(last.held, d) = <<DailySummaryOf(d, last.entries)>>
          /\ SummariesOn(last.value, d) = SummariesOn(last.held, d)

----------------------------------------------------------------------------
(* Properties over the append-only log (SpecLog) *)

\* C3: for the date to which events logged at the time of the call belong
\* (the UTC date of the call), the returned summary is the aggregation of
\* the entries of that date, whatever the time zone.
C3_AccumulatingDateFresh ==
    (Returned /\ date_naive(last.now) \in EntryDates(last.entries))
        => SummariesOn(last.value, date_naive(last.now))
             = <<DailySummaryOf(date_naive(last.now), last.entries)>>

\* C4: every returned summary equals the sum over all the passed events of
\* its date.
C4_TotalsAreSums ==
    Returned =>
        \A i \in 1..Len(last.value) :
            last.value[i] = DailySummaryOf(last.value[i].date, last.entries)

\* C11 as claimed: a call with an empty event list returns an empty result,
\* whatever the cache file held.
C11_EmptyInEmptyOut ==
    Returned /\ last.entries = <<>> => last.value = <<>>

\* C11 as amended: a call with an empty event list that returns Ok returns
\* exactly the summaries dated before today that the cache file held, sorted
\* by date; the result is empty when the file was missing, unreadable,
\* undecodable or held no such summary.
C11_EmptyInCachedOut ==
    Returned /\ last.entries = <<>> =>
        /\ last.value
             = sort_by_key(SelectSeq(last.held, LAMBDA s : s.date < last.today))
        /\ last.kind \in Unloadable => last.value = <<>>

C11_Witness ==
    /\ Returned
    /\ last.entries = <<>>
    /\ last.kind = "json"
    /\ last.value # <<>>
    /\ \E i \in 1..Len(last.held) : last.held[i].date = last.today

----------------------------------------------------------------------------
(* Properties of load_data *)

IsRun == run.op = "load_data"

\* what the parser of a source returned on the path that produced the result
ParsedOnPath(cli) ==
    IF run.path = "warm" THEN parse_recent_files(cli, run.in, run.now)
                         ELSE parse_all(cli, run.in, run.now)

\* the daily summaries of the entries, as a set
DailySet(entries) == {DailySummaryOf(d, entries) : d \in EntryDates(entries)}

\* C12: when the cache directory cannot be created or the cache file cannot be
\* written for a source, the result of load_data still holds the daily
\* aggregation of the entries parsed for that source, on either path.
C12_CacheFailureStillServed ==
    IsRun =>
        \A cli \in Clis :
            /\ run.in.io[cli] \in {"write_err", "create_dir_err"}
            /\ ParsedOnPath(cli).ok
            => DailySet(ParsedOnPath(cli).value) \subseteq Range(run.value)

----------------------------------------------------------------------------
(* Properties of the cache files *)

\* a step of the system that is a (new) clear call
IsClearStep == last'.op = "clear" /\ (last' # last \/ files' # files)

\* the model names of the summaries a cache file holds
ModelsIn(file) ==
    UNION {DOMAIN HeldSummaries(file)[i].models : i \in 1..Len(HeldSummaries(file))}

\* C14: a load_or_compute call leaves every cache file either as it was or
\* holding a complete record; no partly written file is ever left behind.
C14_AllOrNothing ==
    [][IsCallStep =>
          \A p \in Paths : files'[p] = files[p] \/ from_str(files'[p]).ok]_vars

\* C15: distinct sources have distinct cache files; a load_or_compute or clear
\* on one source leaves the file of every other source as it was; and the
\* file of a source only ever holds the record and the events of that source,
\* however the calls of the sources interleave.
C15_SourcesIsolated ==
    /\ [](\A cli \in Clis :
             LET file == files[cache_path(cli)] IN
             file.kind = "json" =>
                 /\ from_str(file).value.cli = cli
                 /\ ModelsIn(file) \subseteq {source_entry(cli, 0).model})
    /\ [][IsCallStep \/ IsClearStep =>
             \A other \in Clis \ {last'.cli} :
                 /\ cache_path(other) # cache_path(last'.cli)
                 /\ files'[cache_path(other)] = files[cache_path(other)]]_vars

C15_Witness ==
    /\ IsCall
    /\ last.kind = "json"
    /\ last.value # <<>>
    /\ \E other \in Clis \ {last.cli} :
          /\ files[cache_path(other)].kind = "json"
          /\ HeldSummaries(files[cache_path(other)]) # <<>>

\* C16 as claimed: clear returns Ok and leaves no cache file for the source.
C16_ClearAlwaysOk ==
    last.op = "clear" => last.ok /\ files[cache_path(last.cli)].kind = "absent"

\* C16 as amended: clear returns Ok unless removing an existing file fails;
\* after Ok the source has no cache file (an absent file changes nothing),
\* after a failure the file is still there; and a load_or_compute that
\* follows a successful clear returns the daily aggregation of its entries.
C16_ClearRemovesFile ==
    /\ [](last.op = "clear" =>
             /\ last.ok <=> last.io = "ok"
             /\ last.kind = "absent" => last.ok
             /\ last.ok => files[cache_path(last.cli)].kind = "absent"
             /\ ~last.ok => files[cache_path(last.cli)].kind = last.kind)
    /\ [][IsClearStep /\ files[cache_path(last'.cli)].kind = "absent"
             => files' = files]_vars
    /\ [][last.op = "clear" /\ last.ok /\ IsCallStep /\ last'.cli = last.cli
             /\ last'.ok
             => last'.value = SortedDaily(last'.entries)]_vars

C16_Witness ==
    /\ last.op = "clear"
    /\ last.ok
    /\ last.kind = "json"
    /\ last.held # <<>>
    /\ files[cache_path(last.cli)].kind = "absent"

----------------------------------------------------------------------------
(* The Claude Code JSONL parser.  A byte of a file is a newline or stands  *)
(* for the bytes of one JSON text (which hold no newline); two texts with  *)
(* no newline between them are not one JSON value.                         *)

MaxBytes == 3

NL == "\n"

\* the JSON texts: not JSON at all; an object without "timestamp"; a user
\* turn (no "message"); a message without "usage"; a usage object without
\* its required counts; assistant turns with usage: plain, with cache counts
\* (and a timestamp in another offset), with a timestamp that is no date-time
Texts ==
    {"garbage", "no_timestamp", "user", "no_usage", "usage_incomplete",
     "assistant", "assistant_cache", "assistant_bad_ts"}

\* the texts that occur in the files
FileTexts == {"user", "assistant", "assistant_bad_ts"}

Bytes == {NL} \cup FileTexts

\* Option<T>
None == <<>>

Some(v) == <<v>>

\* a "timestamp" string: an RFC 3339 date-time (wall clock and UTC offset, in
\* half days) or some other string
Rfc3339(wall, offset) == [rfc3339 |-> TRUE, wall |-> wall, offset |-> offset]

NotADate == [rfc3339 |-> FALSE, wall |-> 0, offset |-> 0]

ClaudeUsage(input, output, cache_creation, cache_read) ==
    [input_tokens |-> input, output_tokens |-> output,
     cache_creation_input_tokens |-> cache_creation,
     cache_read_input_tokens |-> cache_read]

ClaudeMessage(model, usage) == [model |-> model, usage |-> usage]

ClaudeJsonLine(timestamp, message, cost_usd) ==
    [timestamp |-> timestamp, message |-> message, cost_usd |-> cost_usd]

\* simd_json::from_slice::<ClaudeJsonLine>(line)
from_slice(line) ==
    IF Len(line) # 1 \/ line[1] \in {NL, "garbage", "no_timestamp", "usage_incomplete"}
    THEN Err
    ELSE CASE line[1] = "user" ->
                Ok(ClaudeJsonLine(Rfc3339(6, 0), None, None))
           [] line[1] = "no_usage" ->
                Ok(ClaudeJsonLine(Rfc3339(6, 0),
                                  Some(ClaudeMessage(Some("claude"), None)), None))
           [] line[1] = "assistant" ->
                Ok(ClaudeJsonLine(Rfc3339(6, 0),
                                  Some(ClaudeMessage(Some("claude"),
                                       Some(ClaudeUsage(100, 50, None, None)))),
                                  Some(1)))
           [] line[1] = "assistant_cache" ->
                Ok(ClaudeJsonLine(Rfc3339(7, 1),
                                  Some(ClaudeMessage(None,
                                       Some(ClaudeUsage(100, 50, Some(10), Some(20))))),
                                  None))
           [] line[1] = "assistant_bad_ts" ->
                Ok(ClaudeJsonLine(NotADate,
                                  Some(ClaudeMessage(Some("claude"),
                                       Some(ClaudeUsage(200, 70, None, None)))),
                                  None))

\* DateTime::parse_from_rfc3339(s).map(|dt| dt.with_timezone(&Utc))
parse_from_rfc3339(timestamp) ==
    IF timestamp.rfc3339 THEN Ok(timestamp.wall - timestamp.offset) ELSE Err

\* faulty variant: the instant of parsing, whatever the line says
timestamp_always_now(timestamp, now) == now

\* .unwrap_or_else(|_| Utc::now())
timestamp_or_now(timestamp, now) ==
    LET dt == parse_from_rfc3339(timestamp) IN IF dt.ok THEN dt.value ELSE now

\* faulty variant: the default, whatever the line says
unwrap_or_ignored(opt, default) == default

\* Option::unwrap_or
unwrap_or(opt, default) == IF opt = None THEN default ELSE opt[1]

\* parse_line(line) at the instant `now`
parse_line(line, now) ==
    IF line = <<>> THEN None
    ELSE LET data == from_slice(line) IN
         IF ~data.ok THEN None
         ELSE IF data.value.message = None THEN None
         ELSE IF data.value.message[1].usage = None THEN None
         ELSE LET message == data.value.message[1]
                  usage == message.usage[1]
              IN  Some([timestamp |-> timestamp_or_now(data.value.timestamp, now),
                        model |-> message.model,
                        input_tokens |-> usage.input_tokens,
                        output_tokens |-> usage.output_tokens,
                        cache_read_tokens |->
                            unwrap_or(usage.cache_read_input_tokens, 0),
                        cache_creation_tokens |->
                            unwrap_or(usage.cache_creation_input_tokens, 0),
                        cost_usd |-> data.value.cost_usd])

\* content[start..end], indices from 0, end excluded
slice(content, start, end) == SubSeq(content, start + 1, end)

\* the loop of parse_file over the bytes from index i on: the slices handed
\* to parse_line so far and the start of the current line
RECURSIVE scan(_, _, _, _)
scan(content, i, start, lines) ==
    IF i >= Len(content) THEN [start |-> start, lines |-> lines]
    ELSE IF content[i + 1] = NL
         THEN scan(content, i + 1, i + 1,
                   IF start < i THEN Append(lines, slice(content, start, i))
                                ELSE lines)
         ELSE scan(content, i + 1, start, lines)

\* faulty variant: a last line without newline is lost
tail_line_dropped(content, start) == <<>>

\* the last line, when the file does not end with a newline
tail_line(content, start) ==
    IF start < Len(content) THEN <<slice(content, start, Len(content))>> ELSE <<>>

\* the slices parse_file hands to parse_line, in order
lines_of(content) ==
    LET at_end == scan(content, 0, 0, <<>>)
    IN  at_end.lines \o tail_line(content, at_end.start)

\* entries.push(entry) for every line that yields one
RECURSIVE entries_of(_, _)
entries_of(lines, now) ==
    IF lines = <<>> THEN <<>>
    ELSE parse_line(Head(lines), now) \o entries_of(Tail(lines), now)

\* parse_file(path): std::fs::read fails, or the file has `content`
parse_file(content, read, now) ==
    IF read # "ok" THEN [ok |-> FALSE, lines |-> <<>>, value |-> <<>>]
    ELSE [ok |-> TRUE, lines |-> lines_of(content),
          value |-> entries_of(lines_of(content), now)]

\* the lines given to parse_line on its own
Lines == {<<>>} \cup {<<text>> : text \in Texts} \cup {<<"assistant", "assistant">>}

Contents == SeqsUpTo(Bytes, MaxBytes)

ParseLine ==
    \E line \in Lines :
        /\ parse' = [op |-> "parse_line", in |-> line, now |-> clock,
                     read |-> "ok", lines |-> <<line>>, ok |-> TRUE,
                     value |-> parse_line(line, clock)]
        /\ UNCHANGED <<clock, tz, files, log, last, run, heat, app>>

ParseFile ==
    \E read \in {"ok", "read_err"} :
    \E content \in (IF read = "ok" THEN Contents ELSE {<<>>}) :
    \E out \in {parse_file(content, read, clock)} :
        /\ parse' = [op |-> "parse_file", in |-> content, now |-> clock,
                     read |-> read, lines |-> out.lines, ok |-> out.ok,
                     value |-> out.value]
        /\ UNCHANGED <<clock, tz, files, log, last, run, heat, app>>

NextParse == ParseLine \/ ParseFile \/ Tick

\* the parser does not read the local clock
InitParse == Init /\ tz = 0

SpecParse == InitParse /\ [][NextParse]_vars

----------------------------------------------------------------------------
(* Properties of the parser *)

\* the lines that carry a usage event
UsageLines == {<<"assistant">>, <<"assistant_cache">>, <<"assistant_bad_ts">>}

\* the event of a line that carries one
EventOf(line, now) == parse_line(line, now)[1]

\* an event without its timestamp
Untimed(event) == [event EXCEPT !.timestamp = 0]

\* C17 as claimed: parse_line gives the same result at every instant.
C17_ParseLinePure ==
    parse.op = "parse_line" =>
        \A t \in Instants : parse_line(parse.in, t) = parse.value

\* C17 as amended: at every instant parse_line yields an event for the same
\* lines, with the same fields; the timestamp is the same too when the
\* line's timestamp is a date-time, and is the instant of parsing when not.
C17_PureButTimestampFallback ==
    parse.op = "parse_line" =>
        \A t \in Instants :
            LET other == parse_line(parse.in, t) IN
            /\ (other = None) <=> (parse.value = None)
            /\ other # None =>
                  /\ Untimed(other[1]) = Untimed(parse.value[1])
                  /\ IF from_slice(parse.in).value.timestamp.rfc3339
                     THEN other[1].timestamp = parse.value[1].timestamp
                     ELSE /\ other[1].timestamp = t
                          /\ parse.value[1].timestamp = parse.now

C17_Witness ==
    /\ parse.op = "parse_line"
    /\ parse.in = <<"assistant_bad_ts">>
    /\ parse.value # None
    /\ clock > parse.now
    /\ parse.value[1].timestamp = parse.now

\* C18: parse_line yields an event exactly for the lines that decode with a
\* timestamp and a message with usage, None for every other line; a
\* timestamp that is no date-time is replaced by the instant of parsing, a
\* date-time is converted to UTC; absent cache counts are 0 and present ones
\* are taken over; parse_file (when the file can be read) returns Ok with
\* the events of the lines that carry one, in file order.
C18_ParseLineSkips ==
    /\ parse.op = "parse_line" =>
          /\ (parse.value # None) <=> (parse.in \in UsageLines)
          /\ parse.in = <<"assistant_bad_ts">> =>
                parse.value[1].timestamp = parse.now
          /\ parse.in = <<"assistant">> =>
                /\ parse.value[1].timestamp = 6
                /\ parse.value[1].cache_read_tokens = 0
                /\ parse.value[1].cache_creation_tokens = 0
          /\ parse.in = <<"assistant_cache">> =>
                /\ parse.value[1].timestamp = 6
                /\ parse.value[1].cache_read_tokens = 20
                /\ parse.value[1].cache_creation_tokens = 10
    /\ parse.op = "parse_file" /\ parse.read = "ok" =>
          /\ parse.ok
          /\ LET carrying == SelectSeq(parse.lines, LAMBDA l : l \in UsageLines)
             IN  parse.value = [i \in 1..Len(carrying) |->
                                   EventOf(carrying[i], parse.now)]

C18_Witness ==
    /\ parse.op = "parse_file"
    /\ parse.ok
    /\ parse.in = <<"assistant_bad_ts", NL, "user">>
    /\ Len(parse.value) = 1
    /\ parse.value[1].timestamp = parse.now

\* the first bytes of the maximal runs of bytes other than newline
RunStarts(content) ==
    {a \in 1..Len(content) :
        content[a] # NL /\ (a = 1 \/ content[a - 1] = NL)}

\* the last byte of the run that starts at a
RunEnd(content, a) ==
    CHOOSE b \in a..Len(content) :
        /\ \A k \in a..b : content[k] # NL
        /\ b = Len(content) \/ content[b + 1] = NL

\* the maximal non-empty runs of bytes between newlines, in file order
Runs(content) ==
    LET starts == Ascending(RunStarts(content))
    IN  [i \in 1..Len(starts) |-> SubSeq(content, starts[i], RunEnd(content, starts[i]))]

\* C19: parse_file hands to parse_line exactly the maximal non-empty runs of
\* bytes between newlines, in file order, each once: no line is empty, none
\* holds a newline, a last run without newline is among them, and an empty
\* file has no lines.
C19_LinesAreRuns ==
    parse.op = "parse_file" /\ parse.ok =>
        /\ parse.lines = Runs(parse.in)
        /\ \A i \in 1..Len(parse.lines) :
              parse.lines[i] # <<>> /\ NL \notin Range(parse.lines[i])
        /\ parse.in = <<>> => parse.lines = <<>>

C19_Witness ==
    /\ parse.op = "parse_file"
    /\ parse.ok
    /\ Len(parse.in) = 3
    /\ parse.in[1] = NL /\ parse.in[2] = NL /\ parse.in[3] # NL
    /\ parse.lines = <<<<parse.in[3]>>>>

----------------------------------------------------------------------------
(* The heatmap statistics *)

MaxValues == 4

\* the daily token totals that occur
TokenCounts == {0, 10, 20, 30, 40}

Percentiles(p25, p50, p75) == [p25 |-> p25, p50 |-> p50, p75 |-> p75]

\* faulty variant: the days without tokens stay among the values
non_zero_kept(values) == values

\* values.iter().copied().filter(|&v| v > 0).collect()
non_zero(values) == SelectSeq(values, LAMBDA v : v > 0)

RECURSIVE insert_ascending(_, _)
insert_ascending(s, v) ==
    IF s = <<>> THEN <<v>>
    ELSE IF v < Head(s) THEN <<v>> \o s
    ELSE <<Head(s)>> \o insert_ascending(Tail(s), v)

\* non_zero.sort_unstable(): ascending; equal counts are indistinguishable
RECURSIVE sort_unstable(_)
sort_unstable(s) ==
    IF s = <<>> THEN <<>>
    ELSE insert_ascending(sort_unstable(SubSeq(s, 1, Len(s) - 1)), s[Len(s)])

\* faulty variant: the rank rounded down and not moved to an index
percentile_idx_floor(len, num, den) == (len * num) \div den

\* (len as f64 * q).ceil() as usize - 1 for q = num / den; q is 0.25, 0.50 or
\* 0.75, which f64 holds exactly, as it does the product for any length of
\* a vector
percentile_idx(len, num, den) == ((len * num + den - 1) \div den) - 1

min(a, b) == IF a <= b THEN a ELSE b

\* calculate_percentiles(values); the vector is indexed from 0
calculate_percentiles(values) ==
    LET sorted == sort_unstable(non_zero(values))
        len == Len(sorted)
    IN  IF len = 0 THEN None
        ELSE Some(Percentiles(
                 sorted[min(percentile_idx(len, 1, 4), len - 1) + 1],
                 sorted[min(percentile_idx(len, 1, 2), len - 1) + 1],
                 sorted[min(percentile_idx(len, 3, 4), len - 1) + 1]))

\* build_grid collects the token totals of the days, one by one
AddValue ==
    \E v \in TokenCounts :
        /\ Len(heat.in) < MaxValues
        /\ heat' = [NoHeat EXCEPT !.op = "values", !.in = Append(heat.in, v)]
        /\ UNCHANGED <<clock, tz, files, log, last, run, parse, app>>

CalculatePercentiles ==
    /\ heat' = [NoHeat EXCEPT !.op = "calculate_percentiles", !.in = heat.in,
                              !.value = calculate_percentiles(heat.in)]
    /\ UNCHANGED <<clock, tz, files, log, last, run, parse, app>>

\* the token counts of the cells: the counts that occur and counts between
TokensOfCells == {5 * k : k \in 0..9}

\* HeatmapIntensity, from the emptiest to the fullest
Intensities == <<"None", "Low", "Medium", "High", "Max">>

\* faulty variant: the threshold itself is above the level
within_exclusive(tokens, threshold) == tokens < threshold

\* tokens <= threshold
within(tokens, threshold) == tokens <= threshold

\* Percentiles::intensity(self, tokens)
intensity(self, tokens) ==
    IF tokens = 0 THEN "None"
    ELSE IF within(tokens, self.p25) THEN "Low"
    ELSE IF within(tokens, self.p50) THEN "Medium"
    ELSE IF within(tokens, self.p75) THEN "High"
    ELSE "Max"

\* build_grid maps the tokens of a cell with the percentiles it calculated
Intensity ==
    \E tokens \in TokensOfCells :
        /\ heat.op \in {"calculate_percentiles", "intensity"}
        /\ heat.value # None
        /\ heat' = [heat EXCEPT !.op = "intensity", !.tokens = tokens,
                                !.level = intensity(heat.value[1], tokens)]
        /\ UNCHANGED <<clock, tz, files, log, last, run, parse, app>>

NextHeat == AddValue \/ CalculatePercentiles \/ Intensity

\* the statistics do not read the clock
InitHeat == Init /\ tz = 0

SpecHeat == InitHeat /\ [][NextHeat]_vars

----------------------------------------------------------------------------
(* Properties of the heatmap statistics *)

\* the positions of the non-zero values
NonZeroAt(values) == {i \in 1..Len(values) : values[i] > 0}

\* nearest rank: the least non-zero value v such that at least the share
\* num / den of the non-zero values is <= v
NearestRank(values, num, den) ==
    LET n == Cardinality(NonZeroAt(values))
        reached(v) ==
            Cardinality({i \in NonZeroAt(values) : values[i] <= v}) * den >= n * num
    IN  CHOOSE v \in {values[i] : i \in NonZeroAt(values)} :
            /\ reached(v)
            /\ \A w \in {values[i] : i \in NonZeroAt(values)} : reached(w) => v <= w

\* C20: calculate_percentiles returns None exactly when no value is non-zero;
\* otherwise p25, p50 and p75 are the nearest-rank quartiles of the non-zero
\* values (the elements of index ceil(n q) - 1 of their ascending sort), and
\* the result is the same for every order of the values.
C20_NearestRankPercentiles ==
    heat.op = "calculate_percentiles" =>
        /\ (heat.value = None) <=> (NonZeroAt(heat.in) = {})
        /\ heat.value # None =>
              heat.value[1] = Percentiles(NearestRank(heat.in, 1, 4),
                                          NearestRank(heat.in, 1, 2),
                                          NearestRank(heat.in, 3, 4))
        /\ \A order \in Orders(1..Len(heat.in)) :
              calculate_percentiles([i \in 1..Len(heat.in) |-> heat.in[order[i]]])
                  = heat.value

C20_Witness ==
    /\ heat.op = "calculate_percentiles"
    /\ heat.in = <<40, 10, 30, 20>>
    /\ heat.value = Some(Percentiles(10, 20, 30))

\* C21: intensity is None for 0 tokens, Low up to and including p25, Medium
\* above p25 up to and including p50, High above p50 up to and including
\* p75, and Max above p75.
C21_IntensityLevels ==
    heat.op = "intensity" =>
        LET p == heat.value[1]
            v == heat.tokens
        IN  /\ heat.level = "None" <=> v = 0
            /\ heat.level = "Low" <=> 0 < v /\ v <= p.p25
            /\ heat.level = "Medium" <=> p.p25 < v /\ v <= p.p50
            /\ heat.level = "High" <=> p.p50 < v /\ v <= p.p75
            /\ heat.level = "Max" <=> v > p.p75

C21_Witness ==
    /\ heat.op = "intensity"
    /\ heat.value = Some(Percentiles(10, 20, 30))
    /\ heat.tokens = 20
    /\ heat.level = "Medium"

\* the position of a level among the intensities
Rank(level) == CHOOSE i \in 1..Len(Intensities) : Intensities[i] = level

\* C29: the thresholds calculate_percentiles returns are non-zero values of
\* its input with 0 < p25 <= p50 <= p75; so the intensity never decreases
\* when the token count grows, and the least non-zero value is Low.
C29_ThresholdsOrdered ==
    heat.op = "calculate_percentiles" /\ heat.value # None =>
        LET p == heat.value[1]
            inputs == {heat.in[i] : i \in NonZeroAt(heat.in)}
        IN  /\ 0 < p.p25 /\ p.p25 <= p.p50 /\ p.p50 <= p.p75
            /\ {p.p25, p.p50, p.p75} \subseteq inputs
            /\ \A v, w \in TokensOfCells :
                  v <= w => Rank(intensity(p, v)) <= Rank(intensity(p, w))
            /\ \A least \in inputs :
                  (\A v \in inputs : least <= v) => intensity(p, least) = "Low"

C29_Witness ==
    /\ heat.op = "calculate_percentiles"
    /\ heat.in = <<30, 0, 10, 20>>
    /\ heat.value = Some(Percentiles(10, 20, 30))

----------------------------------------------------------------------------
(* The App under its callers: the calls made on a new App one by one, or    *)
(* run_app, which loads the data into its own App and then loops: draw,     *)
(* leave if should_quit, else wait up to 100 ms for an event and handle it, *)
(* or tick when none came.                                                  *)

\* the entries of the session files: two models, both on the day before
\* and on the day of the run
AppEntryPool ==
    {make_entry(t, "claude", 100, 50, 1) : t \in {clock - 2, clock}}
        \cup {make_entry(t, "opus", 7, 3, 2) : t \in {clock - 2, clock}}

\* what parse_all returns to App::load_data
ParseOutcomes ==
    {Ok(entries) : entries \in SeqsUpTo(AppEntryPool, MaxEntries)} \cup {Err}

Called(self, op, event, entries) ==
    [app EXCEPT !.self = self, !.op = op, !.event = event, !.entries = entries]

\* app.handle_event(event)
AppHandleEvent ==
    \E event \in Events :
        /\ app.pc = "new"
        /\ app' = Called(handle_event(app.self, event), "handle_event", event, <<>>)
        /\ UNCHANGED <<clock, tz, files, log, last, run, parse, heat>>

\* app.tick()
AppTick ==
    /\ app.pc = "new"
    /\ app' = Called(tick(app.self), "tick", NoEvent, <<>>)
    /\ UNCHANGED <<clock, tz, files, log, last, run, parse, heat>>

\* run_app: let mut app = App::new(); app.load_data();
RunApp ==
    \E parsed \in ParseOutcomes :
        \E order \in Orders(EntryDates(parsed.value)) :
            /\ app.pc = "new" /\ app.op = "new"
            /\ app' = [Called(App_load_data(App_new, parsed, order),
                              "load_data", NoEvent, parsed.value)
                          EXCEPT !.pc = "draw"]
            /\ UNCHANGED <<clock, tz, files, log, last, run, parse, heat>>

\* terminal.draw(|frame| app.draw(frame))?
Draw ==
    \E drawn \in {"ok", "err"} :
        /\ app.pc = "draw"
        /\ app' = [app EXCEPT !.pc = IF drawn = "ok" THEN "should_quit" ELSE "failed",
                              !.op = "draw", !.event = NoEvent, !.entries = <<>>]
        /\ UNCHANGED <<clock, tz, files, log, last, run, parse, heat>>

\* if app.should_quit() { break; }
ShouldQuit ==
    /\ app.pc = "should_quit"
    /\ app' = [app EXCEPT !.pc = IF should_quit(app.self) THEN "done" ELSE "poll",
                          !.op = "should_quit"]
    /\ UNCHANGED <<clock, tz, files, log, last, run, parse, heat>>

\* event::poll(100 ms)? and event::read()?: an event came and is handled
PollEvent ==
    \E event \in Events :
        /\ app.pc = "poll"
        /\ app' = [Called(handle_event(app.self, event), "handle_event", event, <<>>)
                      EXCEPT !.pc = "draw"]
        /\ UNCHANGED <<clock, tz, files, log, last, run, parse, heat>>

\* event::poll(100 ms)?: no event within the timeout
PollTimeout ==
    /\ app.pc = "poll"
    /\ app' = [Called(tick(app.self), "tick", NoEvent, <<>>) EXCEPT !.pc = "draw"]
    /\ UNCHANGED <<clock, tz, files, log, last, run, parse, heat>>

\* event::poll(100 ms)? or event::read()? fails
PollFails ==
    /\ app.pc = "poll"
    /\ app' = [app EXCEPT !.pc = "failed", !.op = "poll", !.event = NoEvent]
    /\ UNCHANGED <<clock, tz, files, log, last, run, parse, heat>>

\* one step of run_app's loop
Loop == Draw \/ ShouldQuit \/ PollEvent \/ PollTimeout \/ PollFails

NextApp == AppHandleEvent \/ AppTick \/ RunApp \/ Loop

InitApp == Init /\ tz = 0

\* run_app runs on the main thread and none of its steps blocks: drawing
\* returns, and poll returns after 100 ms at the latest, so the loop always
\* takes its next step
SpecApp == InitApp /\ [][NextApp]_vars /\ WF_vars(Loop)

----------------------------------------------------------------------------
(* Properties of the App *)

IsHandled(event) == app.op = "handle_event" /\ app.event = event

QuitKeys == {KeyEvent(code, "Press") : code \in {"q", "Q", "Esc"}}

\* four Tab key presses from the App
FourTabs(self) ==
    LET press == KeyEvent("Tab", "Press")
    IN  handle_event(handle_event(handle_event(handle_event(self, press),
                                               press), press), press)

\* C23: the tabs are a wrapping cycle: a Tab key press applies next and a
\* BackTab key press applies prev, next and prev undo each other on every
\* tab, and four Tab presses in a row lead back to the tab they started at.
C23_TabCycle ==
    /\ [](/\ \A t \in Range(Tabs) : prev(next(t)) = t /\ next(prev(t)) = t
          /\ FourTabs(app.self).current_tab = app.self.current_tab
          /\ next(app.self.current_tab) # app.self.current_tab)
    /\ [][/\ IsHandled(KeyEvent("Tab", "Press"))'
             => app'.self.current_tab = next(app.self.current_tab)
          /\ IsHandled(KeyEvent("BackTab", "Press"))'
             => app'.self.current_tab = prev(app.self.current_tab)]_vars

C23_Witness ==
    /\ IsHandled(KeyEvent("Tab", "Press"))
    /\ app.self.current_tab = "Overview"
    /\ app.pc = "draw"

\* run_app is in its loop with the App it made
InLoop == app.pc \in {"draw", "should_quit", "poll"}

\* run_app has left its loop
Exited == app.pc \in {"done", "failed"}

\* C24: a press of q, Q or Esc makes should_quit() true whatever the state
\* of the App; should_quit() then stays true under every event and tick; the
\* loop of run_app handles no event and no tick once it is true and leaves at
\* its next check, so it ends once a quit key press has been handled.
C24_QuitEndsLoop ==
    /\ []((\E key \in QuitKeys : IsHandled(key)) => should_quit(app.self))
    /\ [][should_quit(app.self) /\ ~(app.pc = "new" /\ app'.pc = "draw")
             => should_quit(app'.self)]_vars
    /\ [][InLoop /\ should_quit(app.self)
             => /\ app'.op \notin {"handle_event", "tick"}
                /\ app.pc = "should_quit" => app'.pc = "done"]_vars
    /\ (InLoop /\ should_quit(app.self)) ~> Exited

C24_Witness ==
    /\ app.pc = "done"
    /\ should_quit(app.self)
    /\ app.self.state.kind = "Ready"
    /\ app.self.current_tab = "Daily"

\* C26: tick changes the spinner only: a Loading App gets the frame
\* (spinner_frame + 1) mod 10 and keeps its stage, so the frame stays within
\* 0..9; a Ready or Error App stays as it is; the current tab and
\* should_quit are never changed.
C26_TickOnlySpins ==
    /\ [](app.self.state.kind = "Loading" => app.self.state.spinner_frame \in 0..9)
    /\ [][app'.op = "tick" =>
             /\ app'.self.current_tab = app.self.current_tab
             /\ app'.self.should_quit = app.self.should_quit
             /\ IF app.self.state.kind = "Loading"
                THEN app'.self.state =
                         Loading((app.self.state.spinner_frame + 1) % 10,
                                 app.self.state.stage)
                ELSE app'.self.state = app.self.state]_vars

C26_Witness ==
    /\ app.op = "tick"
    /\ app.self.state = Loading(0, "Scanning")
    /\ app.self.should_quit
    /\ app.self.current_tab = "Stats"

\* the sum of a token field over the entries at the positions S
RECURSIVE FieldSumAt(_, _, _)
FieldSumAt(entries, S, field) ==
    IF S = {} THEN 0
    ELSE LET k == CHOOSE k \in S : TRUE
         IN  (CASE field = "input" -> entries[k].input_tokens
                [] field = "output" -> entries[k].output_tokens
                [] field = "cache_read" -> entries[k].cache_read_tokens
                [] field = "cache_creation" -> entries[k].cache_creation_tokens)
             + FieldSumAt(entries, S \ {k}, field)

\* the positions of the entries dated d
DatedAt(entries, d) == {k \in 1..Len(entries) : EntryDate(entries[k]) = d}

Permuted(entries, perm) == [k \in 1..Len(entries) |-> entries[perm[k]]]

\* C22: Aggregator::daily depends on the multiset of its events only: it
\* returns one summary per distinct event date, the token totals of a
\* summary are the sums of the fields of the events of its date, and every
\* permutation of the events yields the same set of summaries.
C22_DailyOfMultiset ==
    app.op = "load_data" /\ app.self.state.kind = "Ready" =>
        LET entries == app.entries
            dates == EntryDates(entries)
        IN  /\ \E order \in Orders(dates) :
                  app.self.state.data.daily_tokens =
                      [i \in 1..Len(order) |-> tokens_of(daily(entries, order)[i])]
            /\ \A order \in Orders(dates) :
                  LET out == daily(entries, order)
                  IN  /\ Len(out) = Cardinality(dates)
                      /\ {out[i].date : i \in 1..Len(out)} = dates
                      /\ \A i \in 1..Len(out) :
                            LET at == DatedAt(entries, out[i].date)
                            IN  /\ out[i].total_input_tokens =
                                       FieldSumAt(entries, at, "input")
                                /\ out[i].total_output_tokens =
                                       FieldSumAt(entries, at, "output")
                                /\ out[i].total_cache_read_tokens =
                                       FieldSumAt(entries, at, "cache_read")
                                /\ out[i].total_cache_creation_tokens =
                                       FieldSumAt(entries, at, "cache_creation")
                      /\ \A perm \in Orders(1..Len(entries)) :
                            \A other \in Orders(dates) :
                                Range(daily(Permuted(entries, perm), other))
                                    = Range(out)

C22_Witness ==
    /\ app.op = "load_data"
    /\ app.self.state.kind = "Ready"
    /\ Len(app.entries) = 2
    /\ app.entries[1].model = "opus"
    /\ app.entries[2].model = "claude"
    /\ EntryDate(app.entries[1]) = EntryDate(app.entries[2])
    /\ app.self.state.data.daily_tokens = <<<<EntryDate(app.entries[1]), 160>>>>

----------------------------------------------------------------------------
(* load_or_compute against a reference *)

\* S: the summaries the cache file held that are dated before today
Settled(held, today) == SelectSeq(held, LAMBDA s : s.date < today)

\* R: the event dates that are today or have no summary in S
Recomputed(S, today, entries) ==
    {d \in EntryDates(entries) :
        d = today \/ \A i \in 1..Len(S) : S[i].date # d}

\* the summaries of one date: the aggregation of the events dated in R when
\* the date is in R, the summaries S holds for it otherwise
ReferenceOn(S, R, entries, d) ==
    IF d \in R
    THEN <<DailySummaryOf(d, SelectSeq(entries, LAMBDA e : EntryDate(e) \in R))>>
    ELSE SelectSeq(S, LAMBDA s : s.date = d)

RECURSIVE Concat(_, _)
Concat(parts, n) == IF n = 0 THEN <<>> ELSE Concat(parts, n - 1) \o parts[n]

\* the reference result, date by date in ascending order
Reference(held, today, entries) ==
    LET S == Settled(held, today)
        R == Recomputed(S, today, entries)
        dates == Ascending(R \cup {S[i].date : i \in 1..Len(S)})
    IN  Concat([i \in 1..Len(dates) |-> ReferenceOn(S, R, entries, dates[i])],
               Len(dates))

\* C25: the value load_or_compute returns is the reference: the summaries
\* the file held for dates before today (S) that are not recomputed, united
\* with the aggregation of the events whose date is today or has no summary
\* in S, in ascending order of date; its dates are the dates of S and of the
\* events.
C25_EqualsReference ==
    Returned =>
        LET S == Settled(last.held, last.today)
        IN  /\ last.value = Reference(last.held, last.today, last.entries)
            /\ {last.value[i].date : i \in 1..Len(last.value)}
                   = {S[i].date : i \in 1..Len(S)} \cup EntryDates(last.entries)

\* the file held a summary for today and one for a day before, the events
\* are of both days: one summary is kept, one dropped, one computed
C25_Witness ==
    /\ Returned
    /\ Len(last.value) = 2
    /\ Len(Settled(last.held, last.today)) = 1
    /\ Len(last.held) = 2
    /\ Cardinality(EntryDates(last.entries)) = 2
    /\ Recomputed(Settled(last.held, last.today), last.today, last.entries)
           = {last.today}

\* the summaries the cache file of the last call holds now
Rewritten == HeldSummaries(files[cache_path(last.cli)])

\* C28: a cached summary dated today or later is never served: after a call
\* the result and the rewritten cache file hold a summary for a date >= today
\* only if the events hold an event of that date, and then it is the
\* aggregation of the events; a summary the file held for such a date is
\* gone when the events have no event of that date.
C28_TodayNeverFromCache ==
    Returned =>
        /\ \A summaries \in {last.value, Rewritten} :
              \A i \in 1..Len(summaries) :
                  summaries[i].date >= last.today
                      => /\ summaries[i].date \in EntryDates(last.entries)
                         /\ summaries[i] =
                                DailySummaryOf(summaries[i].date, last.entries)
        /\ \A j \in 1..Len(last.held) :
              (/\ last.held[j].date >= last.today
               /\ last.held[j].date \notin EntryDates(last.entries))
                  => /\ SummariesOn(last.value, last.held[j].date) = <<>>
                     /\ SummariesOn(Rewritten, last.held[j].date) = <<>>

\* the file held a summary for today, the events are of another day only
C28_Witness ==
    /\ Returned
    /\ last.entries # <<>>
    /\ last.value # <<>>
    /\ \E j \in 1..Len(last.held) :
          /\ last.held[j].date = last.today
          /\ last.held[j].date \notin EntryDates(last.entries)

\* the file held a summary for a day after today, the events have none
C28_WitnessLater ==
    /\ Returned
    /\ \E j \in 1..Len(last.held) :
          /\ last.held[j].date > last.today
          /\ last.held[j].date \notin EntryDates(last.entries)

----------------------------------------------------------------------------
(* build_grid: the heatmap grid, 7 rows (Monday to Sunday) of one column    *)
(* per week, the last column being the week of today.  A date is a day      *)
(* number; day 0 is a Monday.                                               *)

MaxDays == 2         \* most days with recorded tokens
MaxWeeks == 2        \* most weeks shown

\* the days tokens are recorded for: before the grid, in the week before
\* today's, and two days of today's week
RecordedDays == {6, 10, 15, 18}

\* today: every day of one week
Todays == 14..20

\* today.weekday().num_days_from_monday()
num_days_from_monday(date) == date % 7

\* token_map.get(&date).copied().unwrap_or(0): collecting into the map keeps
\* the last pair of a date
tokens_on(daily_tokens, date) ==
    LET at == {i \in 1..Len(daily_tokens) : daily_tokens[i][1] = date}
    IN  IF at = {} THEN 0
        ELSE daily_tokens[CHOOSE i \in at : \A j \in at : j <= i][2]

\* faulty variant: the grid starts a whole week too early
grid_start_week_early(week_start, weeks_to_show) == week_start - 7 * weeks_to_show

\* week_start - Duration::weeks(weeks_to_show - 1)
grid_start(week_start, weeks_to_show) == week_start - 7 * (weeks_to_show - 1)

HeatmapCell(date, tokens, level) ==
    [date |-> date, tokens |-> tokens, intensity |-> level]

\* build_grid(daily_tokens, today, weeks_to_show), for weeks_to_show >= 1:
\* grid[day_idx][week_idx], both counted from 0
build_grid(daily_tokens, today, weeks_to_show) ==
    LET all_values == [i \in 1..Len(daily_tokens) |-> daily_tokens[i][2]]
        percentiles == calculate_percentiles(all_values)
        week_start == today - num_days_from_monday(today)
        start == grid_start(week_start, weeks_to_show)
    IN  [day_idx \in 0..6 |->
            [week_idx \in 0..(weeks_to_show - 1) |->
                LET date == start + 7 * week_idx + day_idx
                    tokens == tokens_on(daily_tokens, date)
                IN  IF date > today THEN None
                    ELSE Some(HeatmapCell(date, tokens,
                              IF percentiles = None THEN "None"
                              ELSE intensity(percentiles[1], tokens)))]]

\* the App collects the tokens of one more day (one pair per date)
AddDay ==
    \E date \in RecordedDays, tokens \in {0, 10, 20} :
        /\ heat.op \in {"none", "days"}
        /\ Len(heat.in) < MaxDays
        /\ \A i \in 1..Len(heat.in) : heat.in[i][1] # date
        /\ heat' = [NoHeat EXCEPT !.op = "days",
                                  !.in = Append(heat.in, <<date, tokens>>)]
        /\ UNCHANGED <<clock, tz, files, log, last, run, parse, app>>

\* Heatmap::new(daily_tokens, today, weeks)
BuildGrid ==
    \E today \in Todays, weeks_to_show \in 1..MaxWeeks :
        /\ heat.op \in {"none", "days"}
        /\ heat' = [NoHeat EXCEPT !.op = "build_grid", !.in = heat.in,
                                  !.today = today, !.weeks = weeks_to_show,
                                  !.grid = build_grid(heat.in, today, weeks_to_show)]
        /\ UNCHANGED <<clock, tz, files, log, last, run, parse, app>>

NextGrid == AddDay \/ BuildGrid

InitGrid == Init /\ tz = 0

SpecGrid == InitGrid /\ [][NextGrid]_vars

\* the Monday of the week of a date
MondayOf(date) == CHOOSE m \in (date - 6)..date : m % 7 = 0

\* C27: build_grid returns 7 rows of w columns; the cell of row r (0 is
\* Monday) and column c is the date Monday(today) - 7 * (w - 1) + 7 * c + r;
\* a date up to today has a cell with the tokens recorded for it (0 if
\* none), a date after today has none, and the cell of today is in the last
\* column.
C27_GridCells ==
    heat.op = "build_grid" =>
        LET w == heat.weeks
            grid == heat.grid
        IN  /\ DOMAIN grid = 0..6
            /\ \A r \in 0..6 : DOMAIN grid[r] = 0..(w - 1)
            /\ \A r \in 0..6, c \in 0..(w - 1) :
                  LET date == MondayOf(heat.today) - 7 * (w - 1) + 7 * c + r
                      recorded == {heat.in[i][2] : i \in
                                      {i \in 1..Len(heat.in) : heat.in[i][1] = date}}
                  IN  IF date > heat.today THEN grid[r][c] = None
                      ELSE /\ grid[r][c] # None
                           /\ grid[r][c][1].date = date
                           /\ grid[r][c][1].tokens \in
                                  (IF recorded = {} THEN {0} ELSE recorded)
            /\ \E r \in 0..6 :
                  /\ grid[r][w - 1] # None
                  /\ grid[r][w - 1][1].date = heat.today

\* today is a Wednesday: the cells of the days after it are empty, a day of
\* the week before and a day of this week carry their tokens
C27_Witness ==
    /\ heat.op = "build_grid"
    /\ heat.today = 16
    /\ heat.weeks = 2
    /\ heat.in = <<<<15, 20>>, <<10, 10>>>>
    /\ heat.grid[1][1] = Some(HeatmapCell(15, 20, "High"))
    /\ heat.grid[3][0] = Some(HeatmapCell(10, 10, "Low"))
    /\ heat.grid[3][1] = None

----------------------------------------------------------------------------
(* Runs over the days: every run parses the same session file and hands    *)
(* the entries to load_or_compute; nothing else touches the cache file.     *)

\* the session file: an assistant turn with a date-time of day 3, one whose
\* timestamp is no date-time, a user turn
LogFiles ==
    {<<"assistant_bad_ts">>,
     <<"assistant", NL, "assistant_bad_ts">>,
     <<"user", NL, "assistant">>}

\* the run reads the file, the same file in every run
ParseLog ==
    \E content \in LogFiles :
    \E out \in {parse_file(content, "ok", clock)} :
        /\ parse.op = "none" \/ parse.in = content
        /\ parse' = [op |-> "parse_file", in |-> content, now |-> clock,
                     read |-> "ok", lines |-> out.lines, ok |-> out.ok,
                     value |-> out.value]
        /\ UNCHANGED <<clock, tz, files, log, last, run, heat, app>>

\* the run hands the entries it just parsed to load_or_compute
CallWithParsed ==
    \E cli \in MainClis, io \in IoOutcomes :
        /\ parse.op = "parse_file"
        /\ parse.now = clock
        /\ LoadOrCompute(cli, parse.value, io)

NextRuns == ParseLog \/ CallWithParsed \/ Tick

SpecRuns == Init /\ [][NextRuns]_vars

\* the input tokens of all the summaries
RECURSIVE TotalInput(_)
TotalInput(summaries) ==
    IF summaries = <<>> THEN 0
    ELSE Head(summaries).total_input_tokens + TotalInput(Tail(summaries))

\* C30: over the runs on one session file, every line counts for at most one
\* date of a returned result, the lines whose timestamp is no date-time
\* included: the input tokens of all the returned summaries are at most the
\* input tokens of the lines of the file.
C30_LineCountedOnce ==
    Returned /\ parse.op = "parse_file"
        => TotalInput(last.value) <= SumOver(parse.value, "input")

====
